---- MODULE Spec2Model ----
(***************************************************************************)
(* Model of server/libs/PubSub/PubSubAdapter.js: the type-aware publish /  *)
(* subscribe adapter (publish, publishAndWaitForResponse, subscribe) and   *)
(* its processExit hook, running in several processes over one shared      *)
(* registry store and one channel transport.                               *)
(*                                                                         *)
(* Every `await` of the source is a suspension point: the awaited store    *)
(* call is one atomic step of the model and the synchronous code that      *)
(* follows it, up to the next await, belongs to the step that resumes it.  *)
(***************************************************************************)
EXTENDS Integers, Sequences, FiniteSets, TLC

\* ---------------------------------------------------------------- bounds
NumProcs == 2
MaxCalls == 3
MaxExits == 1

Procs == 1..NumProcs
Channels == {"req", "resp"}
Types == {"svcA", "svcB"}
\* option.subscriberType when the option does not carry one (a falsy value)
NoType == ""
ExitCodes == {0, 1}
NoId == 0
\* header.messageId is unique per message: one per call that builds a message
PublishId(p) == p
WaitId(p) == NumProcs + p

VARIABLES
  subscriberTypes,     \* registry: channel -> set of subscriber types
  channelSubscribers,  \* registry: <<channel, type>> -> set of processes
  typeSet,             \* registry: <<channel, type>> -> in-flight message ids
  clients,             \* transport connections: <<proc, name>> -> state
  listeners,           \* transport: channel -> connections subscribed to it
  inbox,               \* transport: connection -> messages not yet emitted
  pub,                 \* per process: its publish(...) call
  wt,                  \* per process: its publishAndWaitForResponse(...) call
  sub,                 \* per process: its subscribe(...) call
  handlers,            \* connection -> running 'message' handlers
  hook,                \* per process: its processExit hook
  callbacks,           \* per process: messages handed to callback, in order
  claims               \* connection -> <<messageId, result>> of finished claims

vars == <<subscriberTypes, channelSubscribers, typeSet, clients, listeners,
          inbox, pub, wt, sub, handlers, hook, callbacks, claims>>

registry == <<subscriberTypes, channelSubscribers, typeSet>>
transport == <<clients, listeners, inbox>>

\* The four connections a process may open, named as the source names them.
ClientNames == {"client", "pub", "wsub", "sub"}
Conns == Procs \X ClientNames
Keys == Channels \X Types

\* ------------------------------------------------------------- Message
\* JSON.stringify(message): the wire form is a flat tuple.
Stringify(message) ==
  <<message.channel, message.recipient, message.header.messageId>>

\* new Message().createFromString(raw)
createFromString(raw) ==
  [channel |-> raw[1], recipient |-> raw[2], header |-> [messageId |-> raw[3]]]

\* A payload that is not the wire form of a message, and the test that
\* createFromString can decode a payload (it throws when it cannot).
Malformed == <<>>

Decodes(raw) == raw # Malformed

\* message.tryValidate()
tryValidate(message) == message.valid

\* ------------------------------------------------------- PubSubHelper
getSubscriberTypes(channel) == subscriberTypes[channel]

getChannelSubscribersForType(channel, type) == channelSubscribers[<<channel, type>>]

addMessageIdToTypeSet(channel, type, messageId) ==
  [typeSet EXCEPT ![<<channel, type>>] = @ \cup {messageId}]

\* the value removeMessageIdFromTypeSet resolves with
removeResult(channel, type, messageId) == messageId \in typeSet[<<channel, type>>]

removeMessageIdFromTypeSet(channel, type, messageId) ==
  [typeSet EXCEPT ![<<channel, type>>] = @ \ {messageId}]

registerTypes(channel, type) ==
  [subscriberTypes EXCEPT ![channel] = @ \cup {type}]

registerChannelSubscribers(p, channel, type) ==
  [channelSubscribers EXCEPT ![<<channel, type>>] = @ \cup {p}]

unregisterSubscriberFromAllChannels(p) ==
  [k \in Keys |-> channelSubscribers[k] \ {p}]

\* ---------------------------------------------------------- transport
\* client.publish(channel, raw): every connection subscribed to the channel
\* gets the raw payload, whatever type it is meant for.
Deliver(channel, raw) ==
  [c \in Conns |->
     IF c \in listeners[channel] THEN Append(inbox[c], <<channel, raw>>)
     ELSE inbox[c]]

Alive(p) == hook[p].pc # "exited"

\* A call's record: its position (pc), its arguments, its locals (types is the
\* list getSubscriberTypes answered, todo the part of it the loop has not
\* visited, cur the loop's type), and what it has done so far: zero the types
\* whose subscriber list came back empty, reserved the types it added the
\* message id for, sent the payloads it handed to the transport.
IdlePub == [pc |-> "idle", channel |-> "req", valid |-> TRUE, id |-> NoId,
            types |-> {}, todo |-> {}, cur |-> NoType, zero |-> {},
            reserved |-> {}, sent |-> <<>>, replyTo |-> {}]

IdleWait == [pc |-> "idle", channel |-> "req", responseChannel |-> "resp",
             type |-> NoType, valid |-> TRUE, id |-> NoId, types |-> {},
             todo |-> {}, cur |-> NoType, zero |-> {}, reserved |-> {},
             sent |-> <<>>, error |-> "", resolved |-> NoId,
             promise |-> "none"]

IdleSub == [pc |-> "idle", channel |-> "req", type |-> NoType]

IdleHook == [pc |-> "none", exitCode |-> 0, unregister |-> "",
             logged |-> FALSE, status |-> 0]

\* The API calls made so far, over all processes.
NumCalls ==
  Cardinality({p \in Procs : pub[p].pc # "idle"})
  + Cardinality({p \in Procs : wt[p].pc # "idle"})
  + Cardinality({p \in Procs : sub[p].pc # "idle"})

NumExits == Cardinality({p \in Procs : hook[p].pc # "none"})

Init ==
  /\ subscriberTypes = [c \in Channels |-> {}]
  /\ channelSubscribers = [k \in Keys |-> {}]
  /\ typeSet = [k \in Keys |-> {}]
  /\ clients = [c \in Conns |-> "none"]
  /\ listeners = [c \in Channels |-> {}]
  /\ inbox = [c \in Conns |-> <<>>]
  /\ pub = [p \in Procs |-> IdlePub]
  /\ wt = [p \in Procs |-> IdleWait]
  /\ sub = [p \in Procs |-> IdleSub]
  /\ handlers = [c \in Conns |-> {}]
  /\ hook = [p \in Procs |-> IdleHook]
  /\ callbacks = [p \in Procs |-> <<>>]
  /\ claims = [c \in Conns |-> {}]

\* The ids of the messages a process's callback has been invoked with.
Received(p) == {callbacks[p][i].header.messageId : i \in 1..Len(callbacks[p])}

\* ------------------------------------------------------------ publish
\* publish without the validation test
PublishRejects_Never(message) == FALSE

\* if (!message.tryValidate()) throw ...
PublishRejects(message) == ~tryValidate(message)

\* publish without the test on the subscriber list
HasSubscribers_Always(subscribers) == TRUE

\* if (subscribers.length > 0)
HasSubscribers(subscribers) == Cardinality(subscribers) > 0

\* a loop that stops after its first type
RemainingTypes_Break(todo, type) == {}

\* for (let type of subscriberTypes): the types still to visit after `type`
RemainingTypes(todo, type) == todo \ {type}

\* publish, up to the answer of getSubscriberTypes: stamp the channel, create
\* the client, validate, read the channel's types; an empty list ends the
\* loop at once and the client quits.
PublishCall(p, channel, valid) ==
  /\ Alive(p)
  /\ pub[p].pc = "idle"
  /\ LET message == [channel |-> channel, valid |-> valid]
         subscriberTypes_ == getSubscriberTypes(message.channel)
         call == [pub[p] EXCEPT !.channel = message.channel,
                                !.valid = valid,
                                !.id = PublishId(p),
                                !.replyTo = Received(p)]
     IN
     IF PublishRejects(message)
     THEN /\ pub' = [pub EXCEPT ![p] = [call EXCEPT !.pc = "threw"]]
          /\ clients' = [clients EXCEPT ![<<p, "client">>] = "open"]
     ELSE IF subscriberTypes_ = {}
     THEN /\ pub' = [pub EXCEPT ![p] = [call EXCEPT !.pc = "done"]]
          /\ clients' = [clients EXCEPT ![<<p, "client">>] = "closed"]
     ELSE /\ pub' = [pub EXCEPT ![p] = [call EXCEPT !.pc = "check",
                                                    !.types = subscriberTypes_,
                                                    !.todo = subscriberTypes_]]
          /\ clients' = [clients EXCEPT ![<<p, "client">>] = "open"]
  /\ UNCHANGED <<registry, listeners, inbox, wt, sub, handlers, hook,
                 callbacks, claims>>

\* await getChannelSubscribersForType(channel, type), then the test on it.
PublishCheck(p, type) ==
  /\ Alive(p)
  /\ pub[p].pc = "check"
  /\ type \in pub[p].todo
  /\ LET subscribers == getChannelSubscribersForType(pub[p].channel, type)
         rest == RemainingTypes(pub[p].todo, type)
         zero == IF subscribers = {} THEN pub[p].zero \cup {type}
                 ELSE pub[p].zero
     IN
     IF HasSubscribers(subscribers)
     THEN /\ pub' = [pub EXCEPT ![p].pc = "reserve", ![p].cur = type,
                                ![p].todo = rest, ![p].zero = zero]
          /\ UNCHANGED clients
     ELSE /\ pub' = [pub EXCEPT ![p].pc = IF rest = {} THEN "done" ELSE "check",
                                ![p].todo = rest, ![p].zero = zero]
          /\ clients' = IF rest = {}
                        THEN [clients EXCEPT ![<<p, "client">>] = "closed"]
                        ELSE clients
  /\ UNCHANGED <<registry, listeners, inbox, wt, sub, handlers, hook,
                 callbacks, claims>>

\* a publish that goes on to write without adding the message id
PublishReserve_Skipped(p) ==
  /\ Alive(p)
  /\ pub[p].pc = "reserve"
  /\ pub' = [pub EXCEPT ![p].pc = "write"]
  /\ UNCHANGED <<registry, transport, wt, sub, handlers, hook, callbacks,
                 claims>>

\* await addMessageIdToTypeSet(channel, type, message.header.messageId)
PublishReserve(p) ==
  /\ Alive(p)
  /\ pub[p].pc = "reserve"
  /\ typeSet' = addMessageIdToTypeSet(pub[p].channel, pub[p].cur, pub[p].id)
  /\ pub' = [pub EXCEPT ![p].pc = "write", ![p].reserved = @ \cup {pub[p].cur}]
  /\ UNCHANGED <<subscriberTypes, channelSubscribers, transport, wt, sub,
                 handlers, hook, callbacks, claims>>

\* message.recipient = type; client.publish(channel, JSON.stringify(message));
\* after the last type, client.quit().
PublishWrite(p) ==
  /\ Alive(p)
  /\ pub[p].pc = "write"
  /\ LET message == [channel |-> pub[p].channel, recipient |-> pub[p].cur,
                     header |-> [messageId |-> pub[p].id]]
         raw == Stringify(message)
         last == pub[p].todo = {}
     IN
     /\ inbox' = Deliver(pub[p].channel, raw)
     /\ pub' = [pub EXCEPT ![p].pc = IF last THEN "done" ELSE "check",
                           ![p].sent = Append(@, raw)]
     /\ clients' = IF last THEN [clients EXCEPT ![<<p, "client">>] = "closed"]
                   ELSE clients
  /\ UNCHANGED <<registry, listeners, wt, sub, handlers, hook, callbacks,
                 claims>>

\* ---------------------------------------------------------- subscribe
\* subscribe without the test of the option
SubscribeRejects_Never(option) == FALSE

\* if (!option.subscriberType) throw ...
SubscribeRejects(option) == option.subscriberType = NoType

\* a handler with the test of its claim's result inverted
SubscribeClaimed_Inverted(result) == ~result

\* if (result) return callback(null, message)
SubscribeClaimed(result) == result

\* a filter that forgets the recipient
SubscribeAccepts_AnyRecipient(message, channel, option) ==
  message.channel = channel

\* message.channel == channel && message.recipient == option.subscriberType
SubscribeAccepts(message, channel, option) ==
  /\ message.channel = channel
  /\ message.recipient = option.subscriberType

\* subscribe, up to the 'subscribe' event: the test of the option,
\* createClient(), sub.subscribe(channel), and the transport taking the
\* subscription.
SubscribeCall(p, channel, type) ==
  /\ Alive(p)
  /\ sub[p].pc = "idle"
  /\ LET option == [subscriberType |-> type] IN
     IF SubscribeRejects(option)
     THEN /\ sub' = [sub EXCEPT ![p] = [pc |-> "threw", channel |-> channel,
                                        type |-> option.subscriberType]]
          /\ UNCHANGED <<clients, listeners>>
     ELSE /\ sub' = [sub EXCEPT ![p] = [pc |-> "registering",
                                        channel |-> channel,
                                        type |-> option.subscriberType]]
          /\ clients' = [clients EXCEPT ![<<p, "sub">>] = "open"]
          /\ listeners' = [listeners EXCEPT ![channel] = @ \cup {<<p, "sub">>}]
  /\ UNCHANGED <<registry, inbox, pub, wt, handlers, hook, callbacks, claims>>

\* await registerChannelSubscribers(channel, option.subscriberType)
SubscribeRegister(p) ==
  /\ Alive(p)
  /\ sub[p].pc = "registering"
  /\ subscriberTypes' = registerTypes(sub[p].channel, sub[p].type)
  /\ channelSubscribers' =
       registerChannelSubscribers(p, sub[p].channel, sub[p].type)
  /\ sub' = [sub EXCEPT ![p].pc = "registered"]
  /\ UNCHANGED <<typeSet, transport, pub, wt, handlers, hook, callbacks,
                 claims>>

\* The ids of the messages a connection's 'message' handler has accepted so
\* far: those whose claim is pending and those whose claim has been answered.
Accepted(conn) ==
  {h.message.header.messageId : h \in handlers[conn]}
    \cup {e[1] : e \in claims[conn]}

\* sub.on('message'), up to its await: decode, filter, start the claim. The
\* handler remembers what was accepted before it (before), so that the order
\* of the 'message' events can be told from the order the claims are answered.
SubscribeOnMessage(p) ==
  LET conn == <<p, "sub">> IN
  /\ Alive(p)
  /\ inbox[conn] # <<>>
  /\ Decodes(Head(inbox[conn])[2])
  /\ LET channel == Head(inbox[conn])[1]
         message == createFromString(Head(inbox[conn])[2])
     IN
     /\ inbox' = [inbox EXCEPT ![conn] = Tail(@)]
     /\ handlers' =
          IF SubscribeAccepts(message, channel, [subscriberType |-> sub[p].type])
          THEN [handlers EXCEPT ![conn] =
                  @ \cup {[message |-> message, before |-> Accepted(conn)]}]
          ELSE handlers
  /\ UNCHANGED <<registry, clients, listeners, pub, wt, sub, hook, callbacks,
                 claims>>

\* await removeMessageIdFromTypeSet(...) for one waiting handler, and the
\* handler's code after it.
SubscribeClaim(p, h) ==
  LET conn == <<p, "sub">>
      m == h.message
      result == removeResult(m.channel, m.recipient, m.header.messageId)
  IN
  /\ Alive(p)
  /\ h \in handlers[conn]
  /\ typeSet' =
       removeMessageIdFromTypeSet(m.channel, m.recipient, m.header.messageId)
  /\ handlers' = [handlers EXCEPT ![conn] = @ \ {h}]
  /\ claims' = [claims EXCEPT ![conn] = @ \cup {<<m.header.messageId, result>>}]
  /\ callbacks' = IF SubscribeClaimed(result)
                  THEN [callbacks EXCEPT ![p] = Append(@, m)]
                  ELSE callbacks
  /\ UNCHANGED <<subscriberTypes, channelSubscribers, transport, pub, wt, sub,
                 hook>>

\* ------------------------------------------- publishAndWaitForResponse
RequestChannels == {"req"}
ResponseChannels == {"resp"}

\* if (!message.tryValidate()) throw ...
WaitRejectsMessage(message) == ~tryValidate(message)

\* if (!option.subscriberType) throw ...
WaitRejectsOption(option) == option.subscriberType = NoType

\* if (subscribers.length > 0)
WaitHasSubscribers(subscribers) == Cardinality(subscribers) > 0

\* a waiter with the test of its claim's result inverted
WaitClaimed_Inverted(result) == ~result

\* a waiter that ignores the result of its claim
WaitClaimed_Always(result) == TRUE

\* if (result) { sub.unsubscribe(channel); sub.quit(); resolve(response) }
WaitClaimed(result) == result

\* response.channel == channel && response.recipient == option.subscriberType
WaitAccepts(response, channel, option) ==
  /\ response.channel = channel
  /\ response.recipient = option.subscriberType

\* The code after the fan-out loop, up to the next await: pub.quit(), the test
\* of option.subscriberType, createClient() and sub.subscribe(responseChannel).
\* `w` is the call's record as the loop leaves it.
WaitAfterLoop(p, w) ==
  LET option == [subscriberType |-> w.type] IN
  IF WaitRejectsOption(option)
  THEN /\ wt' = [wt EXCEPT ![p] = [w EXCEPT !.pc = "threw", !.error = "option"]]
       /\ clients' = [clients EXCEPT ![<<p, "pub">>] = "closed"]
  ELSE /\ wt' = [wt EXCEPT ![p] = [w EXCEPT !.pc = "subscribing"]]
       /\ clients' = [clients EXCEPT ![<<p, "pub">>] = "closed",
                                     ![<<p, "wsub">>] = "open"]

\* publishAndWaitForResponse, up to the answer of getSubscriberTypes. The call
\* returns new Promise(async executor): the promise is settled by resolve()
\* alone (reject is never called), and a throw inside the async executor
\* rejects the executor's own promise, which nobody holds, not the one returned.
WaitCall(p, channel, responseChannel, type, valid) ==
  /\ Alive(p)
  /\ wt[p].pc = "idle"
  /\ LET message == [channel |-> channel, valid |-> valid]
         subscriberTypes_ == getSubscriberTypes(message.channel)
         call == [wt[p] EXCEPT !.channel = message.channel,
                               !.responseChannel = responseChannel,
                               !.type = type,
                               !.valid = valid,
                               !.id = WaitId(p),
                               !.promise = "pending"]
     IN
     IF WaitRejectsMessage(message)
     THEN /\ wt' = [wt EXCEPT ![p] = [call EXCEPT !.pc = "threw",
                                                  !.error = "message"]]
          /\ clients' = [clients EXCEPT ![<<p, "pub">>] = "open"]
     ELSE IF subscriberTypes_ = {}
     THEN WaitAfterLoop(p, call)
     ELSE /\ wt' = [wt EXCEPT ![p] = [call EXCEPT !.pc = "check",
                                                  !.types = subscriberTypes_,
                                                  !.todo = subscriberTypes_]]
          /\ clients' = [clients EXCEPT ![<<p, "pub">>] = "open"]
  /\ UNCHANGED <<registry, listeners, inbox, pub, sub, handlers, hook,
                 callbacks, claims>>

\* await getChannelSubscribersForType(channel, type), then the test on it.
WaitCheck(p, type) ==
  /\ Alive(p)
  /\ wt[p].pc = "check"
  /\ type \in wt[p].todo
  /\ LET subscribers == getChannelSubscribersForType(wt[p].channel, type)
         rest == wt[p].todo \ {type}
         zero == IF subscribers = {} THEN wt[p].zero \cup {type} ELSE wt[p].zero
     IN
     IF WaitHasSubscribers(subscribers)
     THEN /\ wt' = [wt EXCEPT ![p].pc = "reserve", ![p].cur = type,
                              ![p].todo = rest, ![p].zero = zero]
          /\ UNCHANGED clients
     ELSE IF rest = {}
          THEN WaitAfterLoop(p, [wt[p] EXCEPT !.todo = rest, !.zero = zero])
          ELSE /\ wt' = [wt EXCEPT ![p].todo = rest, ![p].zero = zero]
               /\ UNCHANGED clients
  /\ UNCHANGED <<registry, listeners, inbox, pub, sub, handlers, hook,
                 callbacks, claims>>

\* await addMessageIdToTypeSet(channel, type, message.header.messageId)
WaitReserve(p) ==
  /\ Alive(p)
  /\ wt[p].pc = "reserve"
  /\ typeSet' = addMessageIdToTypeSet(wt[p].channel, wt[p].cur, wt[p].id)
  /\ wt' = [wt EXCEPT ![p].pc = "write", ![p].reserved = @ \cup {wt[p].cur}]
  /\ UNCHANGED <<subscriberTypes, channelSubscribers, transport, pub, sub,
                 handlers, hook, callbacks, claims>>

\* message.recipient = type; pub.publish(channel, JSON.stringify(message))
WaitWrite(p) ==
  /\ Alive(p)
  /\ wt[p].pc = "write"
  /\ LET message == [channel |-> wt[p].channel, recipient |-> wt[p].cur,
                     header |-> [messageId |-> wt[p].id]]
         raw == Stringify(message)
         w == [wt[p] EXCEPT !.sent = Append(@, raw), !.pc = "check"]
     IN
     /\ inbox' = Deliver(wt[p].channel, raw)
     /\ IF wt[p].todo = {}
        THEN WaitAfterLoop(p, w)
        ELSE wt' = [wt EXCEPT ![p] = w] /\ UNCHANGED clients
  /\ UNCHANGED <<registry, listeners, pub, sub, handlers, hook, callbacks,
                 claims>>

\* The transport takes the subscription and sub.on('subscribe') fires.
WaitOnSubscribe(p) ==
  /\ Alive(p)
  /\ wt[p].pc = "subscribing"
  /\ listeners' = [listeners EXCEPT ![wt[p].responseChannel] =
                     @ \cup {<<p, "wsub">>}]
  /\ wt' = [wt EXCEPT ![p].pc = "registering"]
  /\ UNCHANGED <<registry, clients, inbox, pub, sub, handlers, hook,
                 callbacks, claims>>

\* await registerChannelSubscribers(channel, option.subscriberType)
WaitRegister(p) ==
  /\ Alive(p)
  /\ wt[p].pc = "registering"
  /\ subscriberTypes' = registerTypes(wt[p].responseChannel, wt[p].type)
  /\ channelSubscribers' =
       registerChannelSubscribers(p, wt[p].responseChannel, wt[p].type)
  /\ wt' = [wt EXCEPT ![p].pc = "waiting"]
  /\ UNCHANGED <<typeSet, transport, pub, sub, handlers, hook, callbacks,
                 claims>>

\* sub.on('message'), up to its await: decode, filter, start the claim.
WaitOnMessage(p) ==
  LET conn == <<p, "wsub">> IN
  /\ Alive(p)
  /\ inbox[conn] # <<>>
  /\ Decodes(Head(inbox[conn])[2])
  /\ LET channel == Head(inbox[conn])[1]
         response == createFromString(Head(inbox[conn])[2])
     IN
     /\ inbox' = [inbox EXCEPT ![conn] = Tail(@)]
     /\ handlers' =
          IF WaitAccepts(response, channel, [subscriberType |-> wt[p].type])
          THEN [handlers EXCEPT ![conn] = @ \cup {[message |-> response]}]
          ELSE handlers
  /\ UNCHANGED <<registry, clients, listeners, pub, wt, sub, hook, callbacks,
                 claims>>

\* await removeMessageIdFromTypeSet(...) for one waiting handler, and the
\* handler's code after it. resolve() settles the promise once only.
WaitClaim(p, h) ==
  LET conn == <<p, "wsub">>
      m == h.message
      result == removeResult(m.channel, m.recipient, m.header.messageId)
  IN
  /\ Alive(p)
  /\ h \in handlers[conn]
  /\ typeSet' =
       removeMessageIdFromTypeSet(m.channel, m.recipient, m.header.messageId)
  /\ handlers' = [handlers EXCEPT ![conn] = @ \ {h}]
  /\ claims' = [claims EXCEPT ![conn] = @ \cup {<<m.header.messageId, result>>}]
  /\ IF WaitClaimed(result)
     THEN /\ listeners' = [listeners EXCEPT ![wt[p].responseChannel] =
                             @ \ {conn}]
          /\ clients' = [clients EXCEPT ![conn] = "closed"]
          /\ inbox' = [inbox EXCEPT ![conn] = <<>>]
          /\ wt' = [wt EXCEPT ![p].resolved =
                                 IF @ = NoId THEN m.header.messageId ELSE @,
                               ![p].promise = "resolved"]
     ELSE UNCHANGED <<transport, wt>>
  /\ UNCHANGED <<subscriberTypes, channelSubscribers, pub, sub, hook,
                 callbacks>>

\* ------------------------------------------------- processExit hook
Outcomes == {"returns", "throws", "hangs"}

\* an exit that drops the code it was given
ExitStatus_Zero(exitCode) == 0

\* process.exit(exitCode)
ExitStatus(exitCode) == exitCode

\* internalEmitter emits processExit and the hook runs up to the answer of
\* await unregisterSubscriberFromAllChannels(): it returns, it throws (the
\* catch logs), or it never settles.
ProcessExit(p, exitCode, outcome) ==
  /\ hook[p].pc = "none"
  /\ NumExits < MaxExits
  /\ CASE outcome = "returns" ->
            /\ channelSubscribers' = unregisterSubscriberFromAllChannels(p)
            /\ hook' = [hook EXCEPT ![p].pc = "exiting",
                                    ![p].exitCode = exitCode,
                                    ![p].unregister = outcome]
       [] outcome = "throws" ->
            /\ hook' = [hook EXCEPT ![p].pc = "exiting",
                                    ![p].exitCode = exitCode,
                                    ![p].unregister = outcome,
                                    ![p].logged = TRUE]
            /\ UNCHANGED channelSubscribers
       [] outcome = "hangs" ->
            /\ hook' = [hook EXCEPT ![p].pc = "hung",
                                    ![p].exitCode = exitCode,
                                    ![p].unregister = outcome]
            /\ UNCHANGED channelSubscribers
  /\ UNCHANGED <<subscriberTypes, typeSet, transport, pub, wt, sub, handlers,
                 callbacks, claims>>

\* console.log(...); process.exit(exitCode): the process is gone, and with it
\* its connections and whatever they had not yet emitted.
HookExit(p) ==
  /\ hook[p].pc = "exiting"
  /\ hook' = [hook EXCEPT ![p].pc = "exited",
                          ![p].status = ExitStatus(hook[p].exitCode)]
  /\ clients' = [c \in Conns |->
                   IF c[1] = p /\ clients[c] = "open" THEN "closed"
                   ELSE clients[c]]
  /\ listeners' = [c \in Channels |-> {l \in listeners[c] : l[1] # p}]
  /\ inbox' = [c \in Conns |-> IF c[1] = p THEN <<>> ELSE inbox[c]]
  /\ handlers' = [c \in Conns |-> IF c[1] = p THEN {} ELSE handlers[c]]
  /\ UNCHANGED <<registry, pub, wt, sub, callbacks, claims>>

\* The application makes at most MaxCalls calls of the API, with any
\* arguments, and at most MaxExits processes are told to exit.
Next ==
  \/ \E p \in Procs, c \in Channels, v \in BOOLEAN :
       NumCalls < MaxCalls /\ PublishCall(p, c, v)
  \/ \E p \in Procs, t \in Types : PublishCheck(p, t)
  \/ \E p \in Procs : PublishReserve(p)
  \/ \E p \in Procs : PublishWrite(p)
  \/ \E p \in Procs, c \in Channels, t \in Types \cup {NoType} :
       NumCalls < MaxCalls /\ SubscribeCall(p, c, t)
  \/ \E p \in Procs : SubscribeRegister(p)
  \/ \E p \in Procs : SubscribeOnMessage(p)
  \/ \E p \in Procs : \E h \in handlers[<<p, "sub">>] : SubscribeClaim(p, h)
  \/ \E p \in Procs, c \in RequestChannels, r \in ResponseChannels,
        t \in Types \cup {NoType}, v \in BOOLEAN :
       NumCalls < MaxCalls /\ WaitCall(p, c, r, t, v)
  \/ \E p \in Procs, t \in Types : WaitCheck(p, t)
  \/ \E p \in Procs : WaitReserve(p)
  \/ \E p \in Procs : WaitWrite(p)
  \/ \E p \in Procs : WaitOnSubscribe(p)
  \/ \E p \in Procs : WaitRegister(p)
  \/ \E p \in Procs : WaitOnMessage(p)
  \/ \E p \in Procs : \E h \in handlers[<<p, "wsub">>] : WaitClaim(p, h)
  \/ \E p \in Procs, e \in ExitCodes, o \in Outcomes : ProcessExit(p, e, o)
  \/ \E p \in Procs : HookExit(p)

Spec == Init /\ [][Next]_vars

\* The steps the adapter takes by itself once its calls are made: everything
\* but the application's calls and the processExit event.
SystemNext ==
  \/ \E p \in Procs, t \in Types : PublishCheck(p, t)
  \/ \E p \in Procs : PublishReserve(p)
  \/ \E p \in Procs : PublishWrite(p)
  \/ \E p \in Procs : SubscribeRegister(p)
  \/ \E p \in Procs : SubscribeOnMessage(p)
  \/ \E p \in Procs : \E h \in handlers[<<p, "sub">>] : SubscribeClaim(p, h)
  \/ \E p \in Procs, t \in Types : WaitCheck(p, t)
  \/ \E p \in Procs : WaitReserve(p)
  \/ \E p \in Procs : WaitWrite(p)
  \/ \E p \in Procs : WaitOnSubscribe(p)
  \/ \E p \in Procs : WaitRegister(p)
  \/ \E p \in Procs : WaitOnMessage(p)
  \/ \E p \in Procs : \E h \in handlers[<<p, "wsub">>] : WaitClaim(p, h)
  \/ \E p \in Procs : HookExit(p)

\* ------------------------------------------- failures in a handler
\* The 'message' handlers are async functions without try/catch, called by the
\* connection's event emitter, which drops the promise they return: a throw of
\* createFromString or a rejected store call becomes an unhandled rejection.
\* What follows is the runtime's choice: it warns and the process goes on, or
\* it terminates the process.
Rejections == {"warned", "terminated"}

\* The runtime terminates process p: no hook runs, its connections are gone.
Terminate(p) ==
  /\ hook' = [hook EXCEPT ![p] = [IdleHook EXCEPT !.pc = "exited",
                                                  !.status = 1]]
  /\ clients' = [c \in Conns |->
                   IF c[1] = p /\ clients[c] = "open" THEN "closed"
                   ELSE clients[c]]
  /\ listeners' = [c \in Channels |-> {l \in listeners[c] : l[1] # p}]
  /\ inbox' = [c \in Conns |-> IF c[1] = p THEN <<>> ELSE inbox[c]]
  /\ handlers' = [c \in Conns |-> IF c[1] = p THEN {} ELSE handlers[c]]

\* Another client of the transport publishes, on a channel somebody listens
\* to, a payload that is not a message (one such payload at a time).
ForeignWrite(channel) ==
  /\ listeners[channel] # {}
  /\ \A c \in Conns : \A i \in 1..Len(inbox[c]) : Decodes(inbox[c][i][2])
  /\ inbox' = Deliver(channel, Malformed)
  /\ UNCHANGED <<registry, clients, listeners, pub, wt, sub, handlers, hook,
                 callbacks, claims>>

\* sub.on('message') of subscribe for a payload createFromString throws on.
SubscribeOnMalformed(p, outcome) ==
  LET conn == <<p, "sub">> IN
  /\ Alive(p)
  /\ inbox[conn] # <<>>
  /\ ~Decodes(Head(inbox[conn])[2])
  /\ IF outcome = "terminated"
     THEN Terminate(p)
     ELSE /\ inbox' = [inbox EXCEPT ![conn] = Tail(@)]
          /\ UNCHANGED <<clients, listeners, handlers, hook>>
  /\ UNCHANGED <<registry, pub, wt, sub, callbacks, claims>>

\* await removeMessageIdFromTypeSet(...) of a subscribe handler is rejected:
\* the store call failed and removed nothing.
SubscribeClaimFails(p, h, outcome) ==
  LET conn == <<p, "sub">> IN
  /\ Alive(p)
  /\ h \in handlers[conn]
  /\ IF outcome = "terminated"
     THEN Terminate(p)
     ELSE /\ handlers' = [handlers EXCEPT ![conn] = @ \ {h}]
          /\ UNCHANGED <<clients, listeners, inbox, hook>>
  /\ UNCHANGED <<registry, pub, wt, sub, callbacks, claims>>

\* Subscribers and publishers of valid messages on the request channel, with
\* undecodable payloads and failing claim calls in between; no process is
\* told to exit.
NextFault ==
  \/ \E p \in Procs, c \in RequestChannels, t \in Types :
       NumCalls < MaxCalls /\ SubscribeCall(p, c, t)
  \/ \E p \in Procs : SubscribeRegister(p)
  \/ \E p \in Procs : SubscribeOnMessage(p)
  \/ \E p \in Procs : \E h \in handlers[<<p, "sub">>] : SubscribeClaim(p, h)
  \/ \E p \in Procs, c \in RequestChannels :
       NumCalls < MaxCalls /\ PublishCall(p, c, TRUE)
  \/ \E p \in Procs, t \in Types : PublishCheck(p, t)
  \/ \E p \in Procs : PublishReserve(p)
  \/ \E p \in Procs : PublishWrite(p)
  \/ \E c \in RequestChannels : ForeignWrite(c)
  \/ \E p \in Procs, o \in Rejections : SubscribeOnMalformed(p, o)
  \/ \E p \in Procs, o \in Rejections :
       \E h \in handlers[<<p, "sub">>] : SubscribeClaimFails(p, h, o)

SpecFault == Init /\ [][NextFault]_vars

\* ----------------------------------------------- request / response
\* The request/response use of the adapter: every process is a service of
\* type t on the request channel c, whose callback answers a request by
\* publishing on the response channel r, and every process may itself send one
\* request and wait on r as type t. All messages are valid, no process exits.
Serve(p, c, t) == SubscribeCall(p, c, t)

Request(p, c, r, t) == WaitCall(p, c, r, t, TRUE)

\* callback(null, request) has run and publishes the reply.
Respond(p, r) == Received(p) # {} /\ PublishCall(p, r, TRUE)

NextRR ==
  \/ \E p \in Procs : Serve(p, "req", "svcA")
  \/ \E p \in Procs : SubscribeRegister(p)
  \/ \E p \in Procs : SubscribeOnMessage(p)
  \/ \E p \in Procs : \E h \in handlers[<<p, "sub">>] : SubscribeClaim(p, h)
  \/ \E p \in Procs : Request(p, "req", "resp", "svcA")
  \/ \E p \in Procs, t \in Types : WaitCheck(p, t)
  \/ \E p \in Procs : WaitReserve(p)
  \/ \E p \in Procs : WaitWrite(p)
  \/ \E p \in Procs : WaitOnSubscribe(p)
  \/ \E p \in Procs : WaitRegister(p)
  \/ \E p \in Procs : WaitOnMessage(p)
  \/ \E p \in Procs : \E h \in handlers[<<p, "wsub">>] : WaitClaim(p, h)
  \/ \E p \in Procs : Respond(p, "resp")
  \/ \E p \in Procs, t \in Types : PublishCheck(p, t)
  \/ \E p \in Procs : PublishReserve(p)
  \/ \E p \in Procs : PublishWrite(p)

SpecRR == Init /\ [][NextRR]_vars

\* ------------------------------------------------------------- claims
Ids == 1..(2 * NumProcs)

Msg(c, t, m) == [channel |-> c, recipient |-> t, header |-> [messageId |-> m]]

\* How many times p's callback was invoked with message msg.
Times(p, msg) ==
  Cardinality({i \in 1..Len(callbacks[p]) : callbacks[p][i] = msg})

\* p subscribed (subscribe) to channel c as type t.
SubscribedAs(p, c, t) ==
  /\ sub[p].pc \in {"registering", "registered"}
  /\ sub[p].channel = c
  /\ sub[p].type = t

\* The subscribers of type t on c whose handler for message id m has finished
\* its claim, and those among them whose claim returned true.
Handled(c, t, m) ==
  {p \in Procs : SubscribedAs(p, c, t)
                 /\ \E r \in BOOLEAN : <<m, r>> \in claims[<<p, "sub">>]}

Won(c, t, m) == {p \in Handled(c, t, m) : <<m, TRUE>> \in claims[<<p, "sub">>]}

\* A publishAndWaitForResponse call waiting on c as type t has claimed m.
WaiterTook(c, t, m) ==
  \E p \in Procs : /\ wt[p].responseChannel = c
                   /\ wt[p].type = t
                   /\ <<m, TRUE>> \in claims[<<p, "wsub">>]

\* C1: competing consumers. For a message id m published to type t on channel
\* c, among the processes subscribed (subscribe) to c as t: a callback is
\* invoked exactly for a claim that returned true, and never twice; as soon as
\* any of them has finished its claim, exactly one of them has won and every
\* other one that has finished observed a failed claim and invoked no
\* callback. The subscribers are taken to be the only consumers of type t on
\* c: a publishAndWaitForResponse call waiting on c as t claims from the same
\* set, and when it took m no subscriber wins.
C1_ExactlyOneCallback ==
  \A p \in Procs :
    /\ \A i \in 1..Len(callbacks[p]) :
         LET msg == callbacks[p][i] IN
         /\ Times(p, msg) = 1
         /\ SubscribedAs(p, msg.channel, msg.recipient)
         /\ <<msg.header.messageId, TRUE>> \in claims[<<p, "sub">>]
    /\ \A e \in claims[<<p, "sub">>] :
         LET c == sub[p].channel
             t == sub[p].type
             m == e[1]
         IN
         /\ <<m, ~e[2]>> \notin claims[<<p, "sub">>]
         /\ Times(p, Msg(c, t, m)) = IF e[2] THEN 1 ELSE 0
         /\ Cardinality(Won(c, t, m)) = IF WaiterTook(c, t, m) THEN 0 ELSE 1

\* Two registered subscribers of one type have both handled one message: one
\* won and was called back, the other observed a failed claim.
C1_Witness ==
  \E p, q \in Procs, c \in Channels, t \in Types, m \in Ids :
    /\ p # q
    /\ sub[p].pc = "registered" /\ sub[q].pc = "registered"
    /\ {p, q} \subseteq Handled(c, t, m)
    /\ <<m, TRUE>> \in claims[<<p, "sub">>]
    /\ <<m, FALSE>> \in claims[<<q, "sub">>]
    /\ Times(p, Msg(c, t, m)) = 1
    /\ Times(q, Msg(c, t, m)) = 0

Recipients(sent) == {sent[i][2] : i \in 1..Len(sent)}

\* C2: fan-out count. A finished publish of a valid message that found N >= 1
\* types registered on the channel, each with at least one subscriber when it
\* was checked, handed exactly N payloads to the transport, each carrying the
\* publish channel and the message id, with N distinct recipients that are
\* exactly the N types.
C2_FanOutCount ==
  \A p \in Procs :
    (pub[p].pc = "done" /\ pub[p].types # {} /\ pub[p].zero = {}) =>
      /\ pub[p].types \subseteq subscriberTypes[pub[p].channel]
      /\ Len(pub[p].sent) = Cardinality(pub[p].types)
      /\ Recipients(pub[p].sent) = pub[p].types
      /\ \A i \in 1..Len(pub[p].sent) :
           /\ pub[p].sent[i][1] = pub[p].channel
           /\ pub[p].sent[i][3] = pub[p].id

\* A publish has finished after writing to two subscriber types.
C2_Witness ==
  \E p \in Procs :
    /\ pub[p].pc = "done"
    /\ pub[p].zero = {}
    /\ Cardinality(pub[p].types) = 2
    /\ Len(pub[p].sent) = 2

\* C3: publish neither writes to nor reserves for a type whose subscriber list
\* was empty when it was checked; with no type registered on the channel it
\* writes nothing and its message id enters no in-flight set; and its message
\* id is in the in-flight set of no pair it did not reserve.
C3_NoWriteWithoutSubscribers ==
  \A p \in Procs :
    /\ Recipients(pub[p].sent) \cap pub[p].zero = {}
    /\ pub[p].reserved \cap pub[p].zero = {}
    /\ pub[p].types = {} => (pub[p].sent = <<>> /\ pub[p].reserved = {})
    /\ \A k \in Keys :
         PublishId(p) \in typeSet[k] =>
           (k[1] = pub[p].channel /\ k[2] \in pub[p].reserved \ pub[p].zero)

\* A publish has finished having skipped a registered type that had no
\* subscriber left.
C3_Witness ==
  \E p \in Procs :
    /\ pub[p].pc = "done"
    /\ pub[p].zero # {}
    /\ pub[p].zero \subseteq subscriberTypes[pub[p].channel]

\* C4: a publish of a message that fails validation throws, hands nothing to
\* the transport and adds its message id to no in-flight set.
C4_InvalidMessageNotPublished ==
  \A p \in Procs :
    (pub[p].pc # "idle" /\ ~pub[p].valid) =>
      /\ pub[p].pc = "threw"
      /\ pub[p].sent = <<>>
      /\ pub[p].reserved = {}
      /\ \A k \in Keys : PublishId(p) \notin typeSet[k]

\* An invalid message was published to a channel that has a registered type
\* with a subscriber.
C4_Witness ==
  \E p \in Procs, t \in Types :
    /\ pub[p].pc = "threw"
    /\ ~pub[p].valid
    /\ t \in subscriberTypes[pub[p].channel]
    /\ channelSubscribers[<<pub[p].channel, t>>] # {}

\* C5 (as claimed): a publishAndWaitForResponse call whose option lacks
\* subscriberType has opened no connection, reserved no message id and handed
\* nothing to the transport when the error is raised.
C5_ConfigErrorBeforeIO ==
  \A p \in Procs :
    (wt[p].pc = "threw" /\ wt[p].error = "option") =>
      /\ clients[<<p, "pub">>] = "none"
      /\ wt[p].reserved = {}
      /\ wt[p].sent = <<>>

\* C6: subscribe with an option lacking subscriberType throws before any I/O:
\* no connection, no subscription on the transport, and no registration (the
\* process is in the registry only if its publishAndWaitForResponse call put
\* it there).
C6_SubscribeConfigErrorBeforeIO ==
  \A p \in Procs :
    (sub[p].pc # "idle" /\ sub[p].type = NoType) =>
      /\ sub[p].pc = "threw"
      /\ clients[<<p, "sub">>] = "none"
      /\ \A c \in Channels : <<p, "sub">> \notin listeners[c]
      /\ inbox[<<p, "sub">>] = <<>>
      /\ wt[p].pc = "idle" => \A k \in Keys : p \notin channelSubscribers[k]

\* subscribe was called without subscriberType and threw.
C6_Witness ==
  \E p \in Procs : sub[p].pc = "threw" /\ sub[p].type = NoType

\* C7: single winner among waiters. Two publishAndWaitForResponse calls of the
\* same subscriberType on the same responseChannel never resolve with the same
\* message id, and a call resolves only with a message it claimed.
C7_SingleWinnerAmongWaiters ==
  \A p, q \in Procs :
    /\ wt[p].resolved # NoId => <<wt[p].resolved, TRUE>> \in claims[<<p, "wsub">>]
    /\ (/\ p # q
        /\ wt[p].type = wt[q].type
        /\ wt[p].responseChannel = wt[q].responseChannel
        /\ wt[p].resolved # NoId)
         => /\ wt[q].resolved # wt[p].resolved
            /\ <<wt[p].resolved, TRUE>> \notin claims[<<q, "wsub">>]

\* Two waiters of one type have both handled the same response: one resolved
\* with it, the other's claim failed and it has not resolved.
C7_Witness ==
  \E p, q \in Procs, m \in Ids :
    /\ p # q
    /\ wt[p].type = wt[q].type
    /\ wt[p].responseChannel = wt[q].responseChannel
    /\ wt[p].resolved = m
    /\ <<m, FALSE>> \in claims[<<q, "wsub">>]
    /\ wt[q].resolved = NoId

\* The caller of waiter w's call is still there to be resolved.
Waiting(w) ==
  /\ wt[w].pc \notin {"idle", "threw"}
  /\ wt[w].valid
  /\ wt[w].type # NoType
  /\ hook[w].pc = "none"

\* Process r has published (publish, finished) a valid response on w's
\* responseChannel, in a call it made after its callback received w's request.
Responded(r, w) ==
  /\ r # w
  /\ pub[r].pc = "done"
  /\ pub[r].valid
  /\ pub[r].channel = wt[w].responseChannel
  /\ wt[w].id \in pub[r].replyTo

OnlyWaiter(w) ==
  /\ \A q \in Procs \ {w} : wt[q].pc = "idle"
  /\ \A q \in Procs : ~SubscribedAs(q, wt[w].responseChannel, wt[w].type)

\* C8 (as claimed): request/response liveness, as the final result of a run.
\* Once the responder has published its response after receiving the request
\* and the adapter has no step left to take, the only waiter of its type has
\* resolved.
C8_ResponseResolvesWaiter ==
  \A w, r \in Procs :
    (Waiting(w) /\ OnlyWaiter(w) /\ Responded(r, w) /\ ~ENABLED SystemNext)
      => wt[w].resolved # NoId

\* C9 (as claimed): bounded shutdown. Once processExit has fired, the hook can
\* always go on to terminate the process, whatever the unregister call does.
C9_ExitHookNeverBlocks ==
  \A p \in Procs :
    hook[p].pc \notin {"none", "exited"} => ENABLED HookExit(p)

\* C10: when unregisterSubscriberFromAllChannels throws in the hook, the
\* error is logged and the hook goes on to process.exit; a process that has
\* exited through the hook exited with the code the hook was given, after its
\* unregister call was made and answered.
C10_UnregisterFailureNotFatal ==
  \A p \in Procs :
    /\ hook[p].unregister = "throws" =>
         /\ hook[p].logged
         /\ hook[p].pc \in {"exiting", "exited"}
         /\ hook[p].pc = "exiting" => ENABLED HookExit(p)
    /\ hook[p].pc = "exited" =>
         /\ hook[p].status = hook[p].exitCode
         /\ hook[p].unregister \in {"returns", "throws"}

\* A process whose unregister call threw has exited with a non-zero code.
C10_Witness ==
  \E p \in Procs :
    /\ hook[p].unregister = "throws"
    /\ hook[p].pc = "exited"
    /\ hook[p].exitCode = 1
    /\ hook[p].status = 1

\* C11 (as claimed): the connection opened for publishing is closed on every
\* exit path: once publish has returned or thrown, and once the publish phase
\* of publishAndWaitForResponse is over or has thrown, that connection is not
\* open.
C11_PublishConnectionClosed ==
  \A p \in Procs :
    /\ pub[p].pc \in {"done", "threw"} => clients[<<p, "client">>] # "open"
    /\ wt[p].pc \in {"threw", "subscribing", "registering", "waiting"} =>
         clients[<<p, "pub">>] # "open"

\* C12 (as claimed): a publishAndWaitForResponse call that threw, on a message
\* failing validation or on an option lacking subscriberType, has rejected the
\* promise it returned. (No code of the call runs after the throw, so a
\* promise still pending then stays pending.)
C12_ErrorRejectsPromise ==
  \A p \in Procs : wt[p].pc = "threw" => wt[p].promise = "rejected"

\* C14 (as claimed): in-order delivery. When a subscriber's handler invokes
\* callback for its message, every message the callback was invoked with
\* earlier had been accepted on that connection before this one: no message
\* the transport delivered later has overtaken it.
C14_InOrderCallbacks ==
  [][\A p \in Procs : \A h \in handlers[<<p, "sub">>] :
       (/\ h \notin handlers'[<<p, "sub">>]
        /\ callbacks'[p] = Append(callbacks[p], h.message))
         => Received(p) \subseteq h.before]_vars

\* Message id m, reserved for type t on channel c, has been taken by a
\* successful claim of a consumer of type t on c.
Claimed(c, t, m) ==
  \/ \E p \in Procs : /\ sub[p].channel = c
                      /\ sub[p].type = t
                      /\ <<m, TRUE>> \in claims[<<p, "sub">>]
  \/ WaiterTook(c, t, m)

\* The wire copy raw is backed by a reservation: its id is in the in-flight set
\* of its (channel, recipient), or a consumer of that pair has claimed it.
Backed(raw) ==
  \/ raw[3] \in typeSet[<<raw[1], raw[2]>>]
  \/ Claimed(raw[1], raw[2], raw[3])

\* C15: reserve before write. Every wire copy a publish or the publish phase
\* of a publishAndWaitForResponse has handed to the transport is for a type
\* whose reservation that call had completed; and every wire copy a connection
\* is about to receive, or has accepted and is claiming, is backed by a
\* reservation: nobody receives a copy whose id was not yet reserved.
C15_ReserveBeforeWrite ==
  /\ \A p \in Procs :
       /\ Recipients(pub[p].sent) \subseteq pub[p].reserved
       /\ Recipients(wt[p].sent) \subseteq wt[p].reserved
  /\ \A conn \in Conns :
       /\ \A i \in 1..Len(inbox[conn]) : Backed(inbox[conn][i][2])
       /\ \A h \in handlers[conn] : Backed(Stringify(h.message))

\* A subscriber's next 'message' event carries a wire copy of a publish, and
\* the id is in the in-flight set of the copy's (channel, recipient).
C15_Witness ==
  \E p, q \in Procs :
    LET conn == <<p, "sub">> IN
    /\ inbox[conn] # <<>>
    /\ Head(inbox[conn])[2][3] = PublishId(q)
    /\ Head(inbox[conn])[2][2] \in pub[q].reserved
    /\ PublishId(q) \in typeSet[<<Head(inbox[conn])[2][1], Head(inbox[conn])[2][2]>>]

\* The next 'message' event of connection conn, subscribed to channel c as
\* type t, carries a message for another channel or another recipient.
Mismatch(conn, c, t) ==
  /\ inbox[conn] # <<>>
  /\ LET message == createFromString(Head(inbox[conn])[2]) IN
     message.channel # c \/ message.recipient # t

\* The step emits the next 'message' event of conn to its handler (and is not
\* the connection being closed).
Emits(conn) ==
  /\ inbox[conn] # <<>>
  /\ inbox'[conn] = Tail(inbox[conn])
  /\ listeners' = listeners

\* C16: the type filter leaves the state unchanged. The reception, by a
\* subscriber or by a waiter, of a message whose channel or recipient is not
\* the one it subscribed with starts no claim, invokes no callback, resolves
\* nothing and leaves every in-flight set as it was.
C16_FilterLeavesStateUnchanged ==
  [][\A p \in Procs :
       /\ (Emits(<<p, "sub">>) /\ Mismatch(<<p, "sub">>, sub[p].channel, sub[p].type))
            => UNCHANGED <<typeSet, handlers, claims, callbacks, sub>>
       /\ (Emits(<<p, "wsub">>)
             /\ Mismatch(<<p, "wsub">>, wt[p].responseChannel, wt[p].type))
            => UNCHANGED <<typeSet, handlers, claims, wt, clients>>]_vars

\* A registered subscriber has received both wire copies of a publish to two
\* types: it accepted and claimed its own type's copy and let the other go.
C16_Witness ==
  \E p, r \in Procs :
    LET conn == <<p, "sub">> IN
    /\ sub[p].pc = "registered"
    /\ pub[r].pc = "done"
    /\ pub[r].channel = sub[p].channel
    /\ Len(pub[r].sent) = 2
    /\ sub[p].type \in pub[r].types
    /\ \A q \in Procs : wt[q].pc = "idle"
    /\ inbox[conn] = <<>>
    /\ handlers[conn] = {}
    /\ claims[conn] = {<<PublishId(r), TRUE>>}
    /\ Len(callbacks[p]) = 1

\* C19 (as claimed): one publishAndWaitForResponse call removes at most one
\* message id from the in-flight set: at most one of its claims returns true.
C19_WaiterConsumesAtMostOne ==
  \A p \in Procs :
    Cardinality({e \in claims[<<p, "wsub">>] : e[2]}) <= 1

\* C20 (as claimed): no stranded reservation, as the final result of a run.
\* Once the adapter has no step left to take, no message id that a finished
\* publish added is left in an in-flight set.
C20_NoStrandedReservation ==
  \A p \in Procs :
    (pub[p].pc = "done" /\ ~ENABLED SystemNext)
      => \A k \in Keys : PublishId(p) \notin typeSet[k]

\* Process r's callback received the request of w's call, and that request
\* only, and r then published (publish, finished) one reply on w's
\* responseChannel with a wire copy addressed to w's type.
ReplyTo(r, w) ==
  /\ pub[r].pc = "done"
  /\ pub[r].channel = wt[w].responseChannel
  /\ pub[r].replyTo = {wt[w].id}
  /\ wt[w].type \in Recipients(pub[r].sent)

\* Both calls were waiting on the same responseChannel as the same type when
\* the two replies came: each has accepted both.
WaitedTogether(w1, w2, r1, r2) ==
  /\ w1 # w2
  /\ wt[w1].type = wt[w2].type
  /\ wt[w1].responseChannel = wt[w2].responseChannel
  /\ wt[w1].id # wt[w2].id
  /\ \A w \in {w1, w2} :
       {PublishId(r1), PublishId(r2)} \subseteq Accepted(<<w, "wsub">>)

\* C13 (as claimed): request/response correlation. Two calls of one
\* subscriberType wait together on one responseChannel for the replies to two
\* distinct requests, and both replies are published addressed to that type:
\* a call that has resolved has resolved with the reply to its own request.
C13_RequestResponseCorrelation ==
  \A w1, w2, r1, r2 \in Procs :
    (/\ WaitedTogether(w1, w2, r1, r2)
     /\ ReplyTo(r1, w1)
     /\ ReplyTo(r2, w2))
      => wt[w1].resolved \in {NoId, PublishId(r1)}

\* Connection conn has had a claim answered false, and none answered true.
OnlyFailed(conn) ==
  /\ \E e \in claims[conn] : ~e[2]
  /\ \A e \in claims[conn] : ~e[2]

\* Connection conn is open and subscribed to channel c.
Listening(conn, c) == clients[conn] = "open" /\ conn \in listeners[c]

\* C17: a failed claim is not fatal. A subscriber whose claim for a matching
\* message returned false has not invoked callback with that message, and its
\* connection is still open and subscribed; a waiter whose claims so far all
\* returned false has not resolved, and its connection is still open and
\* subscribed. Either goes on handling what it is delivered: its next message
\* can be emitted to the handler and its pending claims can be answered.
C17_FailedClaimNonFatal ==
  \A p \in Procs :
    /\ \A e \in claims[<<p, "sub">>] :
         (~e[2] /\ Alive(p)) =>
           /\ Times(p, Msg(sub[p].channel, sub[p].type, e[1])) = 0
           /\ Listening(<<p, "sub">>, sub[p].channel)
           /\ inbox[<<p, "sub">>] # <<>> => ENABLED SubscribeOnMessage(p)
           /\ \A h \in handlers[<<p, "sub">>] : ENABLED SubscribeClaim(p, h)
    /\ (OnlyFailed(<<p, "wsub">>) /\ Alive(p)) =>
         /\ wt[p].resolved = NoId
         /\ wt[p].promise = "pending"
         /\ Listening(<<p, "wsub">>, wt[p].responseChannel)
         /\ inbox[<<p, "wsub">>] # <<>> => ENABLED WaitOnMessage(p)
         /\ \A h \in handlers[<<p, "wsub">>] : ENABLED WaitClaim(p, h)

\* A subscriber lost one request to a sibling and was called back with the
\* other, and a waiter lost one reply to a sibling and resolved with the other.
C17_Witness ==
  \E p, w \in Procs, m1, m2, x, y \in Ids :
    /\ m1 # m2
    /\ <<m1, FALSE>> \in claims[<<p, "sub">>]
    /\ <<m2, TRUE>> \in claims[<<p, "sub">>]
    /\ Received(p) = {m2}
    /\ Listening(<<p, "sub">>, sub[p].channel)
    /\ x # y
    /\ <<x, FALSE>> \in claims[<<w, "wsub">>]
    /\ <<y, TRUE>> \in claims[<<w, "wsub">>]
    /\ wt[w].resolved = y

\* C18 (as claimed): per-message error isolation in subscribe. A subscription
\* that nobody tore down (the process was never told to exit) is still there
\* after a message whose handling failed: the process is alive and its
\* connection is open and subscribed.
C18_HandlerErrorIsolated ==
  \A p \in Procs :
    (sub[p].pc \in {"registering", "registered"} /\ hook[p].unregister = "")
      => /\ Alive(p)
         /\ Listening(<<p, "sub">>, sub[p].channel)

====
